---------------------------- MODULE Spec2Model ----------------------------
(***************************************************************************)
(* A model of the MelodyAI audio engine.  Two generations of the engine    *)
(* are in the repository and both are modelled:                            *)
(*   AE_...  src/services/audioEngine.ts   (genre-differentiated, live)    *)
(*   P0_...  src/unnamed/part_000          (always-synth, live + offline)  *)
(* Text (tempo strings, chord lines, chord symbols) is a sequence of       *)
(* one-character strings.  Time is counted in ticks of 1/TicksPerSecond    *)
(* seconds; the tempo strings of the inputs are chosen so that every       *)
(* duration the engines compute is a whole number of ticks.                *)
(***************************************************************************)
EXTENDS Integers, Sequences, FiniteSets, TLC

\* ------------------------------------------------------------------------
\* Time base and IEEE-754 special values
\* ------------------------------------------------------------------------

TicksPerSecond == 18 * 100

\* 60 / 0 in JavaScript: +Infinity.  NaN arises from Infinity * 0.
Infinity == 1000 * 1000 * 1000
NaN == 0 - Infinity

IsFinite(t) == t # Infinity /\ t # NaN

\* a + b on doubles (the only infinity the engines produce is +Infinity)
Plus(a, b) ==
    IF a = NaN \/ b = NaN THEN NaN
    ELSE IF a = Infinity \/ b = Infinity THEN Infinity
    ELSE a + b

\* a - b on doubles
Minus(a, b) ==
    IF a = NaN \/ b = NaN THEN NaN
    ELSE IF a = Infinity /\ b = Infinity THEN NaN
    ELSE IF a = Infinity THEN Infinity
    ELSE a - b

\* a * (n / d) for a rational factor n/d >= 0 with d > 0
Scale(a, n, d) ==
    IF a = NaN THEN NaN
    ELSE IF a = Infinity THEN (IF n = 0 THEN NaN ELSE Infinity)
    ELSE IF a >= 0 THEN (a * n) \div d
    ELSE 0 - (((0 - a) * n) \div d)

\* a < b on doubles (false when either side is NaN)
Less(a, b) ==
    IF a = NaN \/ b = NaN THEN FALSE
    ELSE IF a = Infinity THEN FALSE
    ELSE IF b = Infinity THEN TRUE
    ELSE a < b

\* seconds given as a fraction n/d, in ticks
Sec(n, d) == (n * TicksPerSecond) \div d

\* 60 / bpm, in ticks
BeatOf(bpm) ==
    IF bpm = 0 THEN Infinity
    ELSE IF bpm > 0 THEN (60 * TicksPerSecond) \div bpm
    ELSE 0 - ((60 * TicksPerSecond) \div (0 - bpm))

\* A time the Web Audio API accepts for start(), stop() and parameter
\* automation: finite and non-negative (otherwise the call throws).
ValidTime(t) == IsFinite(t) /\ t >= 0

\* ------------------------------------------------------------------------
\* Text helpers
\* ------------------------------------------------------------------------

Digits == {"0", "1", "2", "3", "4", "5", "6", "7", "8", "9"}
Whitespace == {" "}
Hyphen == {"-"}

DigitVal(c) ==
    CASE c = "0" -> 0 [] c = "1" -> 1 [] c = "2" -> 2 [] c = "3" -> 3
      [] c = "4" -> 4 [] c = "5" -> 5 [] c = "6" -> 6 [] c = "7" -> 7
      [] c = "8" -> 8 [] c = "9" -> 9

RECURSIVE DecimalValue(_)
DecimalValue(ds) ==
    IF ds = <<>> THEN 0
    ELSE 10 * DecimalValue(SubSeq(ds, 1, Len(ds) - 1)) + DigitVal(ds[Len(ds)])

\* the longest prefix of s made of characters of set cs
RECURSIVE TakeWhile(_, _)
TakeWhile(s, cs) ==
    IF s = <<>> \/ s[1] \notin cs THEN <<>>
    ELSE <<s[1]>> \o TakeWhile(Tail(s), cs)

RECURSIVE DropWhile(_, _)
DropWhile(s, cs) ==
    IF s = <<>> \/ s[1] \notin cs THEN s
    ELSE DropWhile(Tail(s), cs)

StartsWith(s, p) == Len(p) <= Len(s) /\ SubSeq(s, 1, Len(p)) = p

\* String.prototype.split(/[seps]+/).filter(x => x.length > 0): the maximal
\* runs of characters outside seps
RECURSIVE SplitOn(_, _)
SplitOn(s, seps) ==
    LET rest == DropWhile(s, seps) IN
    IF rest = <<>> THEN <<>>
    ELSE LET n == Len(rest)
             stop == IF \E i \in 1..n : rest[i] \in seps
                     THEN CHOOSE i \in 1..n :
                            /\ rest[i] \in seps
                            /\ \A j \in 1..(i - 1) : rest[j] \notin seps
                     ELSE n + 1
         IN <<SubSeq(rest, 1, stop - 1)>> \o SplitOn(SubSeq(rest, stop, n), seps)

\* parseInt(s): leading whitespace, an optional sign, then decimal digits.
\* The result is [nan |-> TRUE] when no digit follows.
parseInt(s) ==
    LET t == DropWhile(s, Whitespace)
        neg == t # <<>> /\ t[1] = "-"
        u == IF t # <<>> /\ t[1] \in {"-", "+"} THEN Tail(t) ELSE t
        ds == TakeWhile(u, Digits)
    IN IF ds = <<>> THEN [nan |-> TRUE, val |-> 0]
       ELSE [nan |-> FALSE,
             val |-> IF neg THEN 0 - DecimalValue(ds) ELSE DecimalValue(ds)]

\* s.match(/(\d+)/): the leftmost maximal run of digits, <<>> when none
FirstDigitRun(s) ==
    TakeWhile(DropWhile(s, {c \in {s[i] : i \in 1..Len(s)} : c \notin Digits}), Digits)


\* ------------------------------------------------------------------------
\* Chord resolver
\* ------------------------------------------------------------------------

\* note name -> frequency in 1/100 Hz (the table is the same in both engines)
NOTES ==
    <<
       [name |-> <<"C", "b">>, freq |-> 24694],
       [name |-> <<"C">>, freq |-> 26163],
       [name |-> <<"C", "#">>, freq |-> 27718],
       [name |-> <<"D", "b">>, freq |-> 27718],
       [name |-> <<"D">>, freq |-> 29366],
       [name |-> <<"D", "#">>, freq |-> 31113],
       [name |-> <<"E", "b">>, freq |-> 31113],
       [name |-> <<"E">>, freq |-> 32963],
       [name |-> <<"E", "#">>, freq |-> 34923],
       [name |-> <<"F">>, freq |-> 34923],
       [name |-> <<"F", "#">>, freq |-> 36999],
       [name |-> <<"G", "b">>, freq |-> 36999],
       [name |-> <<"G">>, freq |-> 39200],
       [name |-> <<"G", "#">>, freq |-> 41530],
       [name |-> <<"A", "b">>, freq |-> 41530],
       [name |-> <<"A">>, freq |-> 44000],
       [name |-> <<"A", "#">>, freq |-> 46616],
       [name |-> <<"B", "b">>, freq |-> 46616],
       [name |-> <<"B">>, freq |-> 49388],
       [name |-> <<"B", "#">>, freq |-> 52325]
    >>

NoteNames == {NOTES[i].name : i \in 1..Len(NOTES)}
NoteFreq(name) == (CHOOSE i \in 1..Len(NOTES) : NOTES[i].name = name)

\* chord quality -> semitone offsets from the root, in the order of the
\* object literal (Object.keys keeps insertion order for these keys, except
\* that the integer-like keys "7" and "9" come first, in ascending order)
AE_CHORD_SHAPES ==
    <<
       [key |-> <<"m", "a", "j">>, shape |-> <<0, 4, 7>>],
       [key |-> <<"m", "i", "n">>, shape |-> <<0, 3, 7>>],
       [key |-> <<"m">>, shape |-> <<0, 3, 7>>],
       [key |-> <<"d", "i", "m">>, shape |-> <<0, 3, 6>>],
       [key |-> <<"a", "u", "g">>, shape |-> <<0, 4, 8>>],
       [key |-> <<"7">>, shape |-> <<0, 4, 7, 10>>],
       [key |-> <<"m", "a", "j", "7">>, shape |-> <<0, 4, 7, 11>>],
       [key |-> <<"m", "7">>, shape |-> <<0, 3, 7, 10>>],
       [key |-> <<"9">>, shape |-> <<0, 4, 7, 10, 14>>],
       [key |-> <<"m", "a", "j", "9">>, shape |-> <<0, 4, 7, 11, 14>>],
       [key |-> <<"m", "9">>, shape |-> <<0, 3, 7, 10, 14>>],
       [key |-> <<"s", "u", "s", "4">>, shape |-> <<0, 5, 7>>],
       [key |-> <<"s", "u", "s", "2">>, shape |-> <<0, 2, 7>>],
       [key |-> <<"a", "d", "d", "9">>, shape |-> <<0, 4, 7, 14>>]
    >>

P0_CHORD_SHAPES ==
    <<
       [key |-> <<"m", "a", "j">>, shape |-> <<0, 4, 7>>],
       [key |-> <<"m", "i", "n">>, shape |-> <<0, 3, 7>>],
       [key |-> <<"m">>, shape |-> <<0, 3, 7>>],
       [key |-> <<"d", "i", "m">>, shape |-> <<0, 3, 6>>],
       [key |-> <<"7">>, shape |-> <<0, 4, 7, 10>>],
       [key |-> <<"m", "a", "j", "7">>, shape |-> <<0, 4, 7, 11>>],
       [key |-> <<"m", "7">>, shape |-> <<0, 3, 7, 10>>],
       [key |-> <<"9">>, shape |-> <<0, 4, 7, 10, 14>>],
       [key |-> <<"a", "d", "d", "9">>, shape |-> <<0, 4, 7, 14>>],
       [key |-> <<"s", "u", "s", "4">>, shape |-> <<0, 5, 7>>],
       [key |-> <<"s", "u", "s", "2">>, shape |-> <<0, 2, 7>>]
    >>

RootLetters == {"A", "B", "C", "D", "E", "F", "G"}
Accidentals == {"#", "b"}
Maj == <<"m", "a", "j">>

\* Object.keys(table): integer-like keys ascending, then the others in
\* insertion order
ObjectKeys(table) ==
    LET IsIndex(k) == Len(k) = 1 /\ k[1] \in Digits
        idx == SelectSeq(table, LAMBDA e : IsIndex(e.key))
        str == SelectSeq(table, LAMBDA e : ~IsIndex(e.key))
        RECURSIVE Ins(_, _)
        Ins(sorted, e) ==
            IF sorted = <<>> THEN <<e>>
            ELSE IF DigitVal(e.key[1]) < DigitVal(sorted[1].key[1])
                 THEN <<e>> \o sorted
                 ELSE <<sorted[1]>> \o Ins(Tail(sorted), e)
        RECURSIVE SortIdx(_)
        SortIdx(q) == IF q = <<>> THEN <<>>
                      ELSE Ins(SortIdx(SubSeq(q, 1, Len(q) - 1)), q[Len(q)])
    IN SortIdx(idx) \o str

\* keys.sort((a, b) => b.length - a.length): stable, longest key first
RECURSIVE SortByLengthDesc(_, _)
SortByLengthDesc(keys, n) ==
    IF n = 0 THEN <<>>
    ELSE SelectSeq(keys, LAMBDA e : Len(e.key) = n) \o SortByLengthDesc(keys, n - 1)

MaxKeyLen(table) ==
    CHOOSE n \in {Len(table[i].key) : i \in 1..Len(table)} :
        \A i \in 1..Len(table) : Len(table[i].key) <= n

ShapeOf(table, key) ==
    table[CHOOSE i \in 1..Len(table) : table[i].key = key].shape

\* chordName.match(/^([A-G][#b]?)(.*)$/): [ok, root, rest]
RootMatch(chordName) ==
    IF chordName = <<>> \/ chordName[1] \notin RootLetters
    THEN [ok |-> FALSE, root |-> <<>>, rest |-> <<>>]
    ELSE IF Len(chordName) >= 2 /\ chordName[2] \in Accidentals
         THEN [ok |-> TRUE, root |-> SubSeq(chordName, 1, 2),
               rest |-> SubSeq(chordName, 3, Len(chordName))]
         ELSE [ok |-> TRUE, root |-> SubSeq(chordName, 1, 1),
               rest |-> Tail(chordName)]

\* a variant of the key search with no default: no interval at all when the
\* quality starts with no key
FirstPrefixShapeOrNone(table, quality) ==
    LET keys == SortByLengthDesc(ObjectKeys(table), MaxKeyLen(table))
        hits == {i \in 1..Len(keys) : StartsWith(quality, keys[i].key)}
    IN IF hits = {} THEN <<>>
       ELSE keys[CHOOSE i \in hits : \A j \in hits : i <= j].shape

\* the first key, in the sorted order, that the quality starts with;
\* the 'maj' shape when there is none
FirstPrefixShape(table, quality) ==
    LET keys == SortByLengthDesc(ObjectKeys(table), MaxKeyLen(table))
        hits == {i \in 1..Len(keys) : StartsWith(quality, keys[i].key)}
    IN IF hits = {} THEN ShapeOf(table, Maj)
       ELSE keys[CHOOSE i \in hits : \A j \in hits : i <= j].shape

Frequencies(root, intervals) ==
    [i \in 1..Len(intervals) |->
        [base |-> NOTES[NoteFreq(root)].freq, semi |-> intervals[i]]]

\* audioEngine.ts getChordFrequencies: a sequence of [base, semi], standing
\* for base * 2^(semi/12)
AE_getChordFrequencies(chordName) ==
    LET m == RootMatch(chordName)
        quality == IF m.rest = <<>> THEN Maj ELSE m.rest
        found == FirstPrefixShape(AE_CHORD_SHAPES, quality)
        intervals == IF quality = <<"m">> \/ quality = <<"m", "i", "n">>
                     THEN ShapeOf(AE_CHORD_SHAPES, <<"m">>)
                     ELSE found
    IN IF ~m.ok THEN <<>>
       ELSE IF m.root \notin NoteNames THEN <<>>
       ELSE Frequencies(m.root, intervals)

\* part_000 getChordFrequencies
P0_getChordFrequencies(chordName) ==
    LET m == RootMatch(chordName)
        quality == IF m.rest = <<>> THEN Maj ELSE m.rest
    IN IF ~m.ok THEN <<>>
       ELSE IF m.root \notin NoteNames THEN <<>>
       ELSE Frequencies(m.root, FirstPrefixShape(P0_CHORD_SHAPES, quality))


\* ------------------------------------------------------------------------
\* Scheduled nodes
\* ------------------------------------------------------------------------
\* A record stands for one source node (oscillator or buffer source) that a
\* play function creates and starts, or (src = "auto") for one group of
\* gain automation on the music bus.
\*   role  kick | snare | hat | crash | woodblock | bass | chord | pad |
\*         lead | vocal | duck
\*   time  the argument of start(); end: the argument of stop(), or for a
\*         vocal buffer the time its data runs out
\*   dest  the bus the node's chain is connected to
\*   tone  index of the chord tone played (0: none)
\*   bad   the call that creates the node throws before it starts anything,
\*         because a time it passes to the Web Audio API is negative or not
\*         finite
Node(role, src, time, end, dest, tone, bad) ==
    [role |-> role, src |-> src, time |-> time, end |-> end, dest |-> dest,
     tone |-> tone, bad |-> bad]

IsSource(n) == n.src # "auto"

\* length of the decoded vocal waveform handed to the engines
VocalLen == Sec(3, 1)

\* Math.random(): draw number k of a stream; a draw d stands for d / 5
RandomAt(rnd, k) == rnd[(k % Len(rnd)) + 1]

\* ------------------------------------------------------------------------
\* audioEngine.ts: percussion and instrument voices
\* ------------------------------------------------------------------------

\* a variant of triggerSidechain that leaves the music bus gain alone
AE_triggerSidechainOff(time) == <<>>

\* triggerSidechain: setValueAtTime(1, time), setTargetAtTime(0.4, time),
\* setTargetAtTime(1, time + 0.1) on the module-level musicBus
AE_triggerSidechain(time) ==
    <<Node("duck", "auto", time, Plus(time, Sec(1, 10)), "musicBus", 0, ~ValidTime(time))>>

AE_playKick(time, dest) ==
    <<Node("kick", "osc", time, Plus(time, Sec(4, 10)), dest, 0, ~ValidTime(time))>>
    \o AE_triggerSidechain(time)

AE_playSnare(time, dest) ==
    <<Node("snare", "noise", time, Plus(time, Sec(3, 10)), dest, 0, ~ValidTime(time)),
      Node("snare", "osc", time, Plus(time, Sec(15, 100)), dest, 0, ~ValidTime(time))>>

AE_playHiHat(time, dest, open) ==
    LET duration == IF open THEN Sec(3, 10) ELSE Sec(5, 100)
    IN <<Node("hat", "noise", time, Plus(time, duration), dest, 0, ~ValidTime(time))>>

AE_playCrash(time, dest) ==
    <<Node("crash", "noise", time, Plus(time, Sec(3, 1)), dest, 0, ~ValidTime(time))>>

AE_playWoodblock(time, dest) ==
    <<Node("woodblock", "osc", time, Plus(time, Sec(1, 10)), dest, 0, ~ValidTime(time))>>

\* INSTRUMENTS: type and release (the fields that decide which sources a
\* note creates and when they stop)
AE_INSTRUMENTS(name) ==
    CASE name = "epiano"  -> [type |-> "epiano",  release |-> Sec(5, 10)]
      [] name = "synth"   -> [type |-> "synth",   release |-> Sec(3, 10)]
      [] name = "guitar"  -> [type |-> "guitar",  release |-> Sec(3, 10)]
      [] name = "piano"   -> [type |-> "piano",   release |-> Sec(8, 10)]
      [] name = "guzheng" -> [type |-> "guzheng", release |-> Sec(15, 10)]
      [] name = "pad"     -> [type |-> "pad",     release |-> Sec(2, 1)]
      [] name = "bass"    -> [type |-> "bass",    release |-> Sec(2, 10)]
      [] name = "lead"    -> [type |-> "lead",    release |-> Sec(1, 10)]

\* a variant of playNote that connects its panner to the compressor whatever
\* destination it is given
AE_playNoteDirect(role, tone, time, duration, config, dest) ==
    LET end == Plus(Plus(time, duration), config.release)
        bad == ~ValidTime(time) \/ ~ValidTime(end)
        osc2 == IF config.type \in {"piano", "epiano", "pad", "guitar"}
                THEN <<Node(role, "osc2", time, end, "compressor", tone, bad)>> ELSE <<>>
        sub == IF config.type = "bass"
               THEN <<Node(role, "sub", time, end, "compressor", tone, bad)>> ELSE <<>>
    IN osc2 \o sub \o <<Node(role, "osc", time, end, "compressor", tone, bad)>>

\* playNote: the layered oscillator (osc2) and the sub-oscillator are
\* started before the main oscillator; every source stops at
\* time + duration + release.  The envelope ramps are scheduled before any
\* source is started.
AE_playNote(role, tone, time, duration, config, dest) ==
    LET end == Plus(Plus(time, duration), config.release)
        bad == ~ValidTime(time) \/ ~ValidTime(end)
        osc2 == IF config.type \in {"piano", "epiano", "pad", "guitar"}
                THEN <<Node(role, "osc2", time, end, dest, tone, bad)>> ELSE <<>>
        sub == IF config.type = "bass"
               THEN <<Node(role, "sub", time, end, dest, tone, bad)>> ELSE <<>>
    IN osc2 \o sub \o <<Node(role, "osc", time, end, dest, tone, bad)>>

\* the concatenation of the sequences of a sequence
RECURSIVE Concat(_)
Concat(ss) ==
    IF ss = <<>> THEN <<>> ELSE ss[1] \o Concat(Tail(ss))

\* ------------------------------------------------------------------------
\* audioEngine.ts: arrangement engine
\* ------------------------------------------------------------------------

\* a variant of the hi-hat subdivision that is the same in every section
AE_hatDivFlat(isChorus) == 2

\* const hatDiv = isChorus ? 4 : 2
AE_hatDiv(isChorus) == IF isChorus THEN 4 ELSE 2

\* one pass of the body of playArrangement's while loop, at currentTime;
\* k is the number of Math.random() draws taken so far
AE_arrangeBar(genre, frequencies, currentTime, bpm, sectionType, rnd, k) ==
    LET beatDuration == BeatOf(bpm)
        barDuration == Scale(beatDuration, 4, 1)
        isChorus == sectionType = "Chorus"
        instConfig == IF genre = "chinese" THEN AE_INSTRUMENTS("guzheng")
                      ELSE IF genre = "country" THEN AE_INSTRUMENTS("guitar")
                      ELSE IF genre = "pop" THEN AE_INSTRUMENTS("synth")
                      ELSE AE_INSTRUMENTS("epiano")
        bassConfig == AE_INSTRUMENTS("bass")
        padConfig == AE_INSTRUMENTS("pad")
        leadConfig == AE_INSTRUMENTS("lead")
        At(n, d) == Plus(currentTime, Scale(beatDuration, n, d))
        hatDiv == AE_hatDiv(isChorus)
        pop ==
            AE_playKick(currentTime, "compressor")
            \o AE_playSnare(At(1, 1), "compressor")
            \o AE_playKick(At(2, 1), "compressor")
            \o AE_playSnare(At(3, 1), "compressor")
            \o Concat([j \in 1..(4 * hatDiv) |->
                 AE_playHiHat(Plus(currentTime, Scale(Scale(beatDuration, 1, hatDiv), j - 1, 1)),
                              "compressor", isChorus /\ (j - 1) % 4 = 2)])
            \o Concat([j \in 1..8 |->
                 AE_playNote("bass", 1,
                             Plus(currentTime, Scale(Scale(beatDuration, 1, 2), j - 1, 1)),
                             Scale(beatDuration, 1, 2), bassConfig, "musicBus")])
        rnb ==
            AE_playKick(currentTime, "compressor")
            \o AE_playSnare(At(1, 1), "compressor")
            \o AE_playKick(At(5, 2), "compressor")
            \o AE_playNote("bass", 1, currentTime, Scale(beatDuration, 2, 1), bassConfig, "musicBus")
            \o AE_playNote("bass", 1, At(5, 2), Scale(beatDuration, 3, 2), bassConfig, "musicBus")
            \o Concat([j \in 1..8 |->
                 AE_playHiHat(Plus(currentTime, Scale(Scale(beatDuration, 1, 2), j - 1, 1)),
                              "compressor", FALSE)])
        country ==
            AE_playKick(currentTime, "compressor")
            \o AE_playSnare(At(1, 1), "compressor")
            \o AE_playKick(At(2, 1), "compressor")
            \o AE_playSnare(At(3, 1), "compressor")
            \o AE_playNote("bass", 1, currentTime, beatDuration, bassConfig, "musicBus")
            \o AE_playNote("bass", 1, At(2, 1), beatDuration, bassConfig, "musicBus")
        d1 == RandomAt(rnd, k)
        d2 == RandomAt(rnd, k + 1)
        chinese ==
            (IF isChorus THEN AE_playKick(currentTime, "compressor") ELSE <<>>)
            \o (IF d1 > 3
                THEN AE_playWoodblock(Plus(currentTime, Scale(beatDuration, 4 * d2, 5)),
                                      "compressor")
                ELSE <<>>)
            \o AE_playNote("bass", 1, currentTime, barDuration, bassConfig, "musicBus")
        drums == IF genre = "pop" THEN pop
                 ELSE IF genre = "rnb" THEN rnb
                 ELSE IF genre = "country" THEN country
                 ELSE IF genre = "chinese" THEN chinese
                 ELSE <<>>
        harmony ==
            Concat([i \in 1..Len(frequencies) |->
                AE_playNote("chord", i, currentTime, barDuration, instConfig, "musicBus")
                \o AE_playNote("pad", i, currentTime, barDuration, padConfig, "reverb")])
        arp == IF genre = "pop" /\ isChorus
               THEN Concat([j \in 1..16 |->
                      AE_playNote("lead", ((j - 1) % Len(frequencies)) + 1,
                                  Plus(currentTime, Scale(Scale(beatDuration, 1, 4), j - 1, 1)),
                                  Sec(1, 10), leadConfig, "musicBus")])
               ELSE <<>>
        strum == IF genre = "country"
                 THEN Concat([i \in 1..Len(frequencies) |->
                        AE_playNote("chord", i, Plus(currentTime, (i - 1) * Sec(3, 100)),
                                    Scale(barDuration, 1, 2), instConfig, "musicBus")])
                      \o Concat([i \in 1..Len(frequencies) |->
                        AE_playNote("chord", i,
                                    Plus(At(2, 1), (i - 1) * Sec(3, 100)),
                                    Scale(barDuration, 1, 2), instConfig, "musicBus")])
                 ELSE <<>>
    IN [recs |-> drums \o harmony \o arp \o strum,
        k |-> IF genre = "chinese" THEN (IF d1 > 3 THEN k + 2 ELSE k + 1) ELSE k]

\* What a render pass has done so far:
\*   recs    the records of the nodes created, in creation order
\*   slotOf  for each record, the chord slot it was created for (0: the
\*           vocal track, which belongs to no slot)
\*   starts  the cursor at which each slot walked so far began
\*   k       the number of Math.random() draws taken
\*   cursor  the time cursor (currentTime of the walk)
NewPass(startTime) ==
    [recs |-> <<>>, slotOf |-> <<>>, starts |-> <<>>, k |-> 0, cursor |-> startTime]

\* the pass after the play functions have created the records out.recs and
\* the draws have reached out.k
Created(pass, out) ==
    [pass EXCEPT !.recs = pass.recs \o out.recs, !.k = out.k]

\* the records created since the last slot ended belong to slot i
TagSlot(pass, i) ==
    [pass EXCEPT !.slotOf =
        pass.slotOf \o [j \in 1..(Len(pass.recs) - Len(pass.slotOf)) |-> i]]

\* slot i begins at the cursor
Begin(pass) ==
    [pass EXCEPT !.starts = Append(pass.starts, pass.cursor)]

\* the while loop of playArrangement: bars from currentTime on, while
\* currentTime < endTime - 0.1
RECURSIVE AE_arrangeLoop(_, _, _, _, _, _, _, _)
AE_arrangeLoop(pass, genre, frequencies, currentTime, endTime, bpm, sectionType, rnd) ==
    IF Less(currentTime, Minus(endTime, Sec(1, 10)))
    THEN AE_arrangeLoop(
             Created(pass, AE_arrangeBar(genre, frequencies, currentTime, bpm,
                                         sectionType, rnd, pass.k)),
             genre, frequencies, Plus(currentTime, Scale(BeatOf(bpm), 4, 1)),
             endTime, bpm, sectionType, rnd)
    ELSE pass

\* playArrangement: the opening crash of a Chorus, then the bar loop
AE_playArrangement(pass, genre, frequencies, startTime, duration, bpm, sectionType, rnd) ==
    LET currentTime == startTime
        endTime == Plus(startTime, duration)
        diff == Minus(currentTime, startTime)
        crash == IF sectionType = "Chorus" /\ diff # NaN
                    /\ (IF diff < 0 THEN 0 - diff ELSE diff) < Sec(1, 10)
                 THEN AE_playCrash(currentTime, "musicBus") ELSE <<>>
    IN AE_arrangeLoop(Created(pass, [recs |-> crash, k |-> pass.k]),
                      genre, frequencies, currentTime, endTime, bpm, sectionType, rnd)

\* ------------------------------------------------------------------------
\* The section / chord-line / chord walk
\* ------------------------------------------------------------------------

\* the chord slots of the lines of all sections, in the order of the nested
\* forEach loops; lines[si] are the chord lines the engine walks for
\* section si, separators the characters it splits a line on
SlotsOf(song, lines, separators, secondsPerBar) ==
    Concat([si \in 1..Len(song.sections) |->
      LET section == song.sections[si]
          chords == lines[si]
      IN Concat([li \in 1..Len(chords) |->
           LET chordsInLine == SplitOn(chords[li], separators)
               durationPerChord ==
                   Scale(secondsPerBar, 1,
                         IF Len(chordsInLine) = 0 THEN 1 ELSE Len(chordsInLine))
           IN [j \in 1..Len(chordsInLine) |->
                 [sec |-> si, line |-> li, sym |-> chordsInLine[j],
                  dur |-> durationPerChord, type |-> section.type]]])])

\* song.tempo.match(/(\d+)/) ? parseInt(match[1]) : 100
AE_bpm(tempo) ==
    LET tempoMatch == FirstDigitRun(tempo)
    IN IF tempoMatch # <<>> THEN parseInt(tempoMatch).val ELSE 100

\* section.chords.length > 0 ? section.chords : Array(lyrics.length).fill("C")
AE_chordLines(section) ==
    IF Len(section.chords) > 0 THEN section.chords
    ELSE [i \in 1..Len(section.lyrics) |-> <<"C">>]

AE_slots(song) ==
    SlotsOf(song, [si \in 1..Len(song.sections) |-> AE_chordLines(song.sections[si])],
            Whitespace \cup Hyphen,
            Scale(BeatOf(AE_bpm(song.tempo)), 4, 1))

\* a variant of the step below that moves the cursor only past a chord that
\* resolved ("cursor += durationPerChord" inside the if)
AE_advanceIfResolved(pass, freqs, durationPerChord) ==
    IF Len(freqs) > 0
    THEN [pass EXCEPT !.cursor = Plus(pass.cursor, durationPerChord)]
    ELSE pass

\* what one step of chordsInLine.forEach does with the cursor
AE_advance(pass, freqs, durationPerChord) ==
    [pass EXCEPT !.cursor = Plus(pass.cursor, durationPerChord)]

\* the body of chordsInLine.forEach for slot i: arrange when the chord
\* resolved, advance the cursor
AE_chord(pass, slot, i, freqs, genre, bpm, rnd) ==
    AE_advance(
        TagSlot(IF Len(freqs) > 0
                THEN AE_playArrangement(Begin(pass), genre, freqs, pass.cursor,
                                        slot.dur, bpm, slot.type, rnd)
                ELSE Begin(pass),
                i),
        freqs, slot.dur)

\* the nested forEach loops over slots i..Len(slots)
RECURSIVE AE_walk(_, _, _, _, _, _)
AE_walk(pass, slots, i, genre, bpm, rnd) ==
    IF i > Len(slots) THEN pass
    ELSE AE_walk(AE_chord(pass, slots[i], i, AE_getChordFrequencies(slots[i].sym),
                          genre, bpm, rnd),
                 slots, i + 1, genre, bpm, rnd)

\* a variant of the vocal chain without the "if (vocalBuffer)" guard: the
\* lead source is started with no buffer to play
AE_vocalsUnguarded(vocalBuffer, startTime) ==
    IF vocalBuffer
    THEN <<Node("vocal", "buffer", startTime, Plus(startTime, VocalLen),
                "compressor", 0, FALSE),
           Node("vocal", "buffer", Plus(startTime, Sec(2, 100)),
                Plus(Plus(startTime, Sec(2, 100)), VocalLen), "reverb", 0, FALSE),
           Node("vocal", "buffer", Plus(startTime, Sec(3, 100)),
                Plus(Plus(startTime, Sec(3, 100)), VocalLen), "reverb", 0, FALSE)>>
    ELSE <<Node("vocal", "buffer", startTime, startTime, "compressor", 0, TRUE)>>

\* the vocal sources of playSongDemo: lead, and the two delayed doubles
AE_vocals(vocalBuffer, startTime) ==
    IF vocalBuffer
    THEN <<Node("vocal", "buffer", startTime, Plus(startTime, VocalLen),
                "compressor", 0, FALSE),
           Node("vocal", "buffer", Plus(startTime, Sec(2, 100)),
                Plus(Plus(startTime, Sec(2, 100)), VocalLen), "reverb", 0, FALSE),
           Node("vocal", "buffer", Plus(startTime, Sec(3, 100)),
                Plus(Plus(startTime, Sec(3, 100)), VocalLen), "reverb", 0, FALSE)>>
    ELSE <<>>

\* the records before the first call that throws
GoodPrefix(recs) ==
    LET bad == {i \in 1..Len(recs) : recs[i].bad}
    IN IF bad = {} THEN recs
       ELSE SubSeq(recs, 1, (CHOOSE i \in bad : \A j \in bad : i <= j) - 1)

\* the records of a pass, each with the slot it was created for
Tagged(pass) ==
    [j \in 1..Len(pass.recs) |->
        [role |-> pass.recs[j].role, src |-> pass.recs[j].src,
         time |-> pass.recs[j].time, end |-> pass.recs[j].end,
         dest |-> pass.recs[j].dest, tone |-> pass.recs[j].tone,
         bad |-> pass.recs[j].bad, slot |-> pass.slotOf[j]]]

\* what a render pass leaves behind: the records created (all of them, or
\* those before the exception), and the duration it returns
Outcome(pass, startTime) ==
    [made |-> GoodPrefix(Tagged(pass)),
     threw |-> \E j \in 1..Len(pass.recs) : pass.recs[j].bad,
     starts |-> pass.starts,
     duration |-> Minus(pass.cursor, startTime)]

\* playSongDemo of audioEngine.ts from "const startTime" on
AE_render(song, vocalBuffer, startTime, rnd) ==
    Outcome(AE_walk(TagSlot(Created(NewPass(startTime),
                                    [recs |-> AE_vocals(vocalBuffer, startTime),
                                     k |-> 0]),
                            0),
                    AE_slots(song), 1, song.genre, AE_bpm(song.tempo), rnd),
            startTime)

\* ------------------------------------------------------------------------
\* part_000: voices and the shared render routine
\* ------------------------------------------------------------------------

P0_triggerSidechain(time) ==
    <<Node("duck", "auto", time, Plus(time, Sec(1, 10)), "musicBus", 0, ~ValidTime(time))>>

P0_playKick(time, dest) ==
    <<Node("kick", "osc", time, Plus(time, Sec(4, 10)), dest, 0, ~ValidTime(time))>>
    \o P0_triggerSidechain(time)

P0_playSnare(time, dest) ==
    <<Node("snare", "noise", time, Plus(time, Sec(25, 100)), dest, 0, ~ValidTime(time))>>

P0_playHiHat(time, dest) ==
    <<Node("hat", "noise", time, Plus(time, Sec(5, 100)), dest, 0, ~ValidTime(time))>>

\* playNote: the gain ramps (the last one ends at time + duration) are
\* scheduled before the oscillator is started
P0_playNote(role, tone, time, duration, dest) ==
    LET end == Plus(time, duration)
    IN <<Node(role, "osc", time, end, dest, tone, ~ValidTime(time) \/ ~ValidTime(end))>>

\* parseInt(song.tempo) || 90
P0_bpm(tempo) ==
    LET n == parseInt(tempo)
    IN IF n.nan \/ n.val = 0 THEN 90 ELSE n.val

P0_chordLines(section) == section.chords

P0_slots(song) ==
    SlotsOf(song, [si \in 1..Len(song.sections) |-> P0_chordLines(song.sections[si])],
            Whitespace, Scale(BeatOf(P0_bpm(song.tempo)), 4, 1))

\* a variant of the step below that moves the cursor only past a chord that
\* resolved ("cursor += dur" inside the if)
P0_advanceIfResolved(pass, freqs, dur) ==
    IF Len(freqs) > 0
    THEN [pass EXCEPT !.cursor = Plus(pass.cursor, dur)]
    ELSE pass

\* "cursor += dur"
P0_advance(pass, freqs, dur) ==
    [pass EXCEPT !.cursor = Plus(pass.cursor, dur)]

\* the records the chords.forEach body creates at the cursor
P0_chordVoices(freqs, cursor, dur) ==
    IF Len(freqs) > 0
    THEN Concat([f \in 1..Len(freqs) |->
             P0_playNote("chord", f, cursor, dur, "musicBus")])
         \o P0_playNote("bass", 1, cursor, dur, "musicBus")
         \o P0_playKick(cursor, "compressor")
         \o P0_playSnare(Plus(cursor, Scale(dur, 1, 2)), "compressor")
         \o Concat([j \in 1..4 |->
             P0_playHiHat(Plus(cursor, Scale(Scale(dur, 1, 4), j - 1, 1)),
                          "compressor")])
    ELSE <<>>

\* the chords.forEach body of renderMusicToContext for slot i
P0_chord(pass, slot, i, freqs) ==
    P0_advance(
        TagSlot(Created(Begin(pass),
                        [recs |-> P0_chordVoices(freqs, pass.cursor, slot.dur),
                         k |-> pass.k]),
                i),
        freqs, slot.dur)

\* the nested forEach loops over slots i..Len(slots)
RECURSIVE P0_walk(_, _, _)
P0_walk(pass, slots, i) ==
    IF i > Len(slots) THEN pass
    ELSE P0_walk(P0_chord(pass, slots[i], i, P0_getChordFrequencies(slots[i].sym)),
                 slots, i + 1)

P0_vocals(vocalBuffer, startTime) ==
    IF vocalBuffer
    THEN <<Node("vocal", "buffer", startTime, Plus(startTime, VocalLen),
                "compressor", 0, FALSE)>>
    ELSE <<>>

\* renderMusicToContext: { nodes, duration }
P0_renderMusicToContext(song, vocalBuffer, startTime) ==
    Outcome(P0_walk(TagSlot(Created(NewPass(startTime),
                                    [recs |-> P0_vocals(vocalBuffer, startTime),
                                     k |-> 0]),
                            0),
                    P0_slots(song), 1),
            startTime)

\* ------------------------------------------------------------------------
\* Offline export (part_000)
\* ------------------------------------------------------------------------

\* totalChords of renderSongToBlob: the chord symbols of all chord lines
P0_totalChords(song) ==
    LET counts == Concat([si \in 1..Len(song.sections) |->
                    [li \in 1..Len(song.sections[si].chords) |->
                        Len(SplitOn(song.sections[si].chords[li], Whitespace))]])
        RECURSIVE Sum(_)
        Sum(q) == IF q = <<>> THEN 0 ELSE q[1] + Sum(Tail(q))
    IN Sum(counts)

\* the reverb tail renderSongToBlob adds, in ticks
P0_tail == Sec(5, 1)

\* totalDuration of renderSongToBlob: totalChords * (barDur / 4) + 5
P0_totalDuration(song) ==
    LET barDur == Scale(BeatOf(P0_bpm(song.tempo)), 4, 1)
    IN Plus(P0_totalChords(song) * Scale(barDur, 1, 4), P0_tail)

\* Math.ceil(sampleRate * totalDuration) at 44100 Hz: 49/2 frames a tick
P0_frames(totalDuration) ==
    IF totalDuration >= 0 THEN (totalDuration * 49 + 1) \div 2
    ELSE 0 - (((0 - totalDuration) * 49) \div 2)

\* what renderSongToBlob ends with, given the length it asked for and what
\* the walk did: the OfflineAudioContext constructor throws for a length
\* below 1; an exception of the walk rejects the promise
OfflineResult(song, vocalBuffer, totalDuration, out) ==
    [status |-> IF P0_frames(totalDuration) < 1 \/ out.threw
                THEN "failed" ELSE "done",
     song |-> song, vocal |-> vocalBuffer,
     totalDuration |-> totalDuration,
     frames |-> P0_frames(totalDuration),
     made |-> IF P0_frames(totalDuration) < 1 THEN <<>> ELSE out.made,
     starts |-> out.starts,
     duration |-> out.duration]

\* renderSongToBlob: the walk starts at time 0 of the offline context
P0_renderSongToBlob(song, vocalBuffer) ==
    OfflineResult(song, vocalBuffer, P0_totalDuration(song),
                  P0_renderMusicToContext(song, vocalBuffer, 0))

\* ------------------------------------------------------------------------
\* Inputs
\* ------------------------------------------------------------------------

MaxCalls == 2
MaxClock == 3
MaxLines == 2
MaxLyrics == 2

Genres == {"rnb", "pop", "country", "chinese"}
SectionTypes == {"Verse", "Chorus", "Bridge", "Outro"}

\* tempo strings: a plain number, a number with a unit, a number that is
\* not at the start, none, no number at all, zero, a negative number
T120 == <<"1", "2", "0">>
T90bpm == <<"9", "0", " ", "B", "P", "M">>
TLabel100 == <<"T", "e", "m", "p", "o", ":", " ", "1", "0", "0">>
TNone == <<>>
TFast == <<"F", "a", "s", "t">>
TZero == <<"0">>
TMinus120 == <<"-", "1", "2", "0">>
T1000 == <<"1", "0", "0", "0">>
TempoStrings == {T120, T90bpm, TLabel100, TNone, TFast, TZero, TMinus120}

\* chord lines: one chord, two chords, two chords joined by a hyphen, a
\* symbol with an unknown root, the empty string, four chords
LineC == <<"C">>
LineCG == <<"C", " ", "G">>
LineAmF == <<"A", "m", "-", "F">>
LineX == <<"X", "m", "a", "j">>
LineEmpty == <<>>
LineFour == <<"C", " ", "G", " ", "A", "m", " ", "F">>
ChordLineSet == {LineC, LineCG, LineAmF, LineX, LineEmpty, LineFour}

Lyrics(n) == [i \in 1..n |-> "la"]

Section(type, lyrics, chords) == [type |-> type, lyrics |-> lyrics, chords |-> chords]

MakeSong(genre, tempo, sections) == [genre |-> genre, tempo |-> tempo, sections |-> sections]

\* sections with up to MaxLines chord lines, one lyric line per chord line,
\* or with no chord lines and up to MaxLyrics lyric lines
StructSections(types) ==
    {Section(t, Lyrics(Len(cs)), cs) :
        t \in types, cs \in UNION {[1..m -> ChordLineSet] : m \in 1..MaxLines}}
    \cup {Section(t, Lyrics(n), <<>>) : t \in types, n \in 0..MaxLyrics}

\* the songs the render passes are checked on
Songs ==
    \* every section structure
    {MakeSong(g, T120, <<sec>>) : g \in {"pop", "rnb"}, sec \in StructSections({"Verse"})}
    \* every genre and section type
    \cup {MakeSong(g, T120, <<Section(t, Lyrics(1), <<cl>>)>>) :
            g \in Genres, t \in SectionTypes, cl \in {LineC, LineCG, LineFour}}
    \* every tempo string
    \cup {MakeSong(g, tempo, <<Section("Chorus", Lyrics(2), cs)>>) :
            g \in {"pop", "chinese"}, tempo \in TempoStrings,
            cs \in {<<LineC>>, <<LineCG, LineX>>}}
    \* no chord that resolves, at tempos that give no usable beat
    \cup {MakeSong("pop", tempo, <<Section("Verse", Lyrics(2), <<LineX, LineX>>)>>) :
            tempo \in {TZero, TMinus120}}
    \* a tempo at which a quarter of a bar is shorter than a tenth of a second
    \cup {MakeSong(g, T1000, <<Section("Verse", Lyrics(1), <<cl>>)>>) :
            g \in {"pop", "rnb"}, cl \in {LineC, LineFour}}
    \* three bars of one chord each
    \cup {MakeSong("pop", T90bpm, <<Section("Verse", Lyrics(3), <<LineC, LineC, LineC>>)>>)}
    \* several sections
    \cup {MakeSong("country", T90bpm, <<s1, s2>>) :
            s1 \in {Section("Verse", Lyrics(1), <<LineC>>),
                    Section("Bridge", Lyrics(2), <<>>)},
            s2 \in {Section("Chorus", Lyrics(1), <<LineAmF>>),
                    Section("Outro", Lyrics(1), <<LineX>>)}}

\* what the UI plays in a playback session
SessionInputs ==
    {[song |-> MakeSong("pop", T120, <<Section("Verse", Lyrics(1), <<LineC>>)>>),
      vocal |-> TRUE],
     [song |-> MakeSong("pop", TZero, <<Section("Verse", Lyrics(1), <<LineC>>)>>),
      vocal |-> FALSE],
     [song |-> MakeSong("pop", TMinus120, <<Section("Verse", Lyrics(1), <<LineC>>)>>),
      vocal |-> TRUE]}

\* streams of Math.random() draws (fifths of the unit interval)
RandomSeeds == {<<0>>, <<4, 2>>, <<4, 0, 1>>}

SeedsFor(song) == IF song.genre = "chinese" THEN RandomSeeds ELSE {<<0>>}

\* ------------------------------------------------------------------------
\* State
\* ------------------------------------------------------------------------
\* engine       which generation of playSongDemo / stopAudio serves the
\*              session: "AE" (audioEngine.ts) or "P0" (part_000)
\* inputs       what the UI may hand to the engine: [song, vocal], vocal
\*              telling whether a decoded vocal waveform comes with it
\* audioCtx     the module-level AudioContext: "null", or its state
\* now          audioCtx.currentTime, in ticks
\* pc           per playSongDemo call: "idle" (not made), "await" (suspended
\*              at await ctx.resume()), "returned", "threw"; "off": a call
\*              the session does not make
\* args         per call: [song, vocal, rnd]
\* sched        per call: the records of the nodes the call created
\* activeNodes  the module-level registry, as <<call, index into sched>>
\* stopped      the nodes stopAudio has stopped and disconnected
\* duration     per call: the duration the call returned
\* starts       per call: the cursor at which each chord slot of its walk began
\* musicBus     the call that built the module-level bus graph of
\*              audioEngine.ts (0: null)
\* busOf        per call: the call whose bus graph its voices are connected to
\* exported     the last offline render (status "none" before any)
\* lastOp       history: the engine operation that ran last
\* interrupted  history: the calls during whose await stopAudio() was called
\* sequential   history: no operation has begun while a call was awaiting
\* chordName    the chord symbol handed to getChordFrequencies
\* resolved     what getChordFrequencies returned for it ([done, freqs])
\* buffer       the AudioBuffer handed to audioBufferToWav
\*              ([numberOfChannels, length, sampleRate])
\* blob         the file audioBufferToWav encoded from it
VARIABLES engine, inputs, audioCtx, now, pc, args, sched, activeNodes, stopped,
          duration, starts, musicBus, busOf, exported, lastOp, interrupted, sequential,
          chordName, resolved, buffer, blob

vars == <<engine, inputs, audioCtx, now, pc, args, sched, activeNodes, stopped,
          duration, starts, musicBus, busOf, exported, lastOp, interrupted, sequential,
          chordName, resolved, buffer, blob>>

Calls == 1..MaxCalls
ClockStep == 2 * TicksPerSecond

NoArgs == [song |-> MakeSong("pop", <<>>, <<>>), vocal |-> FALSE, rnd |-> <<0>>]
NoResolved == [done |-> FALSE, freqs |-> <<>>]
NoBuffer == [numberOfChannels |-> 0, length |-> 0, sampleRate |-> 0]
NoBlob == [done |-> FALSE, size |-> 0, header |-> <<>>, data |-> <<>>, pos |-> 0]
NoExport ==
    [status |-> "none", song |-> NoArgs.song, vocal |-> FALSE, totalDuration |-> 0,
     frames |-> 0, made |-> <<>>, starts |-> <<>>, duration |-> 0]

\* the source nodes among the records of call c, as registry entries
SourcesOf(c, made) == {<<c, i>> : i \in {j \in 1..Len(made) : IsSource(made[j])}}

Awaiting == {c \in Calls : pc[c] = "await"}

InitCommon ==
    /\ engine \in {"AE", "P0"}
    /\ args = [c \in Calls |-> NoArgs]
    /\ sched = [c \in Calls |-> <<>>]
    /\ activeNodes = {}
    /\ stopped = {}
    /\ duration = [c \in Calls |-> 0]
    /\ starts = [c \in Calls |-> <<>>]
    /\ musicBus = 0
    /\ busOf = [c \in Calls |-> 0]
    /\ exported = NoExport
    /\ lastOp = [op |-> "none", call |-> 0]
    /\ interrupted = {}
    /\ sequential = TRUE
    /\ resolved = NoResolved
    /\ blob = NoBlob

\* a playback session: several calls, a few songs
Init ==
    /\ InitCommon
    /\ chordName = <<>>
    /\ buffer = NoBuffer
    /\ audioCtx = "null"
    /\ now = 0
    /\ inputs = SessionInputs
    /\ pc = [c \in Calls |-> "idle"]

\* ------------------------------------------------------------------------
\* Operations
\* ------------------------------------------------------------------------

\* getAudioContext: a context created now is suspended or running, as the
\* browser's autoplay policy decides
getAudioContext == IF audioCtx = "null" THEN {"suspended", "running"} ELSE {audioCtx}

\* a variant of stopAudio that stops and disconnects the registered nodes
\* and keeps the registry
AE_stopAudioKeepsRegistry(active, stop) ==
    [activeNodes |-> active, stopped |-> stop \cup active]

\* stopAudio of audioEngine.ts: stop and disconnect every registered node,
\* then empty the registry.  [activeNodes, stopped] afterwards.
AE_stopAudioEffect(active, stop) ==
    [activeNodes |-> {}, stopped |-> stop \cup active]

\* stopAudio of part_000
P0_stopAudioEffect(active, stop) ==
    [activeNodes |-> {}, stopped |-> stop \cup active]

\* setupMasterBus: the module-level graph is built once and then reused
AE_setupMasterBus(c, bus) == IF bus # 0 THEN bus ELSE c

\* setupRouting: a new graph for every call
P0_setupRouting(c) == c

\* a variant of the play functions that push nothing to the registry
AE_registerNothing(c, out, active) == active

\* the registry after the play functions of call c have pushed their nodes
\* (audioEngine.ts pushes inside each play function, so the nodes created
\* before an exception are registered too)
AE_register(c, out, active) == active \cup SourcesOf(c, out.made)

\* "activeNodes = nodes" of part_000, which an exception of
\* renderMusicToContext skips
P0_register(c, out, active) ==
    IF out.threw THEN active ELSE SourcesOf(c, out.made)

\* the start time of a live pass: ctx.currentTime + 0.2
LiveStart == now + Sec(2, 10)

\* playSongDemo of audioEngine.ts after the await: bus, then the render
\* pass, whose outcome is out
AE_schedule(c, out, active) ==
    /\ musicBus' = AE_setupMasterBus(c, musicBus)
    /\ busOf' = [busOf EXCEPT ![c] = AE_setupMasterBus(c, musicBus)]
    /\ sched' = [sched EXCEPT ![c] = out.made]
    /\ activeNodes' = AE_register(c, out, active)
    /\ duration' = [duration EXCEPT ![c] = IF out.threw THEN 0 ELSE out.duration]
    /\ starts' = [starts EXCEPT ![c] = IF out.threw THEN <<>> ELSE out.starts]
    /\ pc' = [pc EXCEPT ![c] = IF out.threw THEN "threw" ELSE "returned"]

\* playSongDemo of part_000 after the await
P0_schedule(c, out, active) ==
    /\ musicBus' = musicBus
    /\ busOf' = [busOf EXCEPT ![c] = P0_setupRouting(c)]
    /\ sched' = [sched EXCEPT ![c] = out.made]
    /\ activeNodes' = P0_register(c, out, active)
    /\ duration' = [duration EXCEPT ![c] = IF out.threw THEN 0 ELSE out.duration]
    /\ starts' = [starts EXCEPT ![c] = IF out.threw THEN <<>> ELSE out.starts]
    /\ pc' = [pc EXCEPT ![c] = IF out.threw THEN "threw" ELSE "returned"]

\* the part of a start that both engines share: stopAudio(), the context,
\* and either the suspension at "await ctx.resume()" or the rest of the call
StartCall(c, a, eff, ctx) ==
    /\ pc[c] = "idle"
    /\ \A d \in 1..(c - 1) : pc[d] # "idle"
    /\ args' = [args EXCEPT ![c] = a]
    /\ stopped' = eff.stopped
    /\ audioCtx' = ctx
    /\ sequential' = (sequential /\ Awaiting = {})
    /\ UNCHANGED <<chordName, resolved, buffer, blob, engine, inputs, now, exported, interrupted>>

\* playSongDemo(song, vocalBuffer) of audioEngine.ts, up to its await or,
\* when the context is running, to its end
AE_playSongDemo(c) ==
    /\ engine = "AE"
    /\ \E in \in inputs, ctx \in getAudioContext :
       \E rnd \in SeedsFor(in.song) :
         LET a == [song |-> in.song, vocal |-> in.vocal, rnd |-> rnd]
             eff == AE_stopAudioEffect(activeNodes, stopped)
         IN /\ StartCall(c, a, eff, ctx)
            /\ IF ctx = "suspended"
               THEN /\ pc' = [pc EXCEPT ![c] = "await"]
                    /\ activeNodes' = eff.activeNodes
                    /\ lastOp' = [op |-> "await", call |-> c]
                    /\ UNCHANGED <<sched, duration, starts, musicBus, busOf>>
               ELSE /\ AE_schedule(c, AE_render(a.song, a.vocal, LiveStart, a.rnd),
                                    eff.activeNodes)
                    /\ lastOp' = [op |-> "start", call |-> c]

\* ctx.resume() resolved: the call goes on to its end
AE_resumed(c) ==
    /\ engine = "AE"
    /\ pc[c] = "await"
    /\ audioCtx' = "running"
    /\ AE_schedule(c, AE_render(args[c].song, args[c].vocal, LiveStart, args[c].rnd),
                   activeNodes)
    /\ lastOp' = [op |-> "start", call |-> c]
    /\ UNCHANGED <<chordName, resolved, buffer, blob, engine, inputs, now, args, stopped, exported, interrupted, sequential>>

\* playSongDemo(song, vocalBuffer) of part_000
P0_playSongDemo(c) ==
    /\ engine = "P0"
    /\ \E in \in inputs, ctx \in getAudioContext :
         LET a == [song |-> in.song, vocal |-> in.vocal, rnd |-> <<0>>]
             eff == P0_stopAudioEffect(activeNodes, stopped)
         IN /\ StartCall(c, a, eff, ctx)
            /\ IF ctx = "suspended"
               THEN /\ pc' = [pc EXCEPT ![c] = "await"]
                    /\ activeNodes' = eff.activeNodes
                    /\ lastOp' = [op |-> "await", call |-> c]
                    /\ UNCHANGED <<sched, duration, starts, musicBus, busOf>>
               ELSE /\ P0_schedule(c, P0_renderMusicToContext(a.song, a.vocal, LiveStart),
                                    eff.activeNodes)
                    /\ lastOp' = [op |-> "start", call |-> c]

P0_resumed(c) ==
    /\ engine = "P0"
    /\ pc[c] = "await"
    /\ audioCtx' = "running"
    /\ P0_schedule(c, P0_renderMusicToContext(args[c].song, args[c].vocal, LiveStart),
                   activeNodes)
    /\ lastOp' = [op |-> "start", call |-> c]
    /\ UNCHANGED <<chordName, resolved, buffer, blob, engine, inputs, now, args, stopped, exported, interrupted, sequential>>

\* stopAudio() called by the UI (handleStop, handleGenerate)
StopCall(eff) ==
    /\ activeNodes' = eff.activeNodes
    /\ stopped' = eff.stopped
    /\ interrupted' = interrupted \cup Awaiting
    /\ sequential' = (sequential /\ Awaiting = {})
    /\ lastOp' = [op |-> "stop", call |-> 0]
    /\ UNCHANGED <<chordName, resolved, buffer, blob, engine, inputs, audioCtx, now, pc, args, sched, duration,
                   starts, musicBus, busOf, exported>>

AE_stopAudio ==
    /\ engine = "AE"
    /\ StopCall(AE_stopAudioEffect(activeNodes, stopped))

P0_stopAudio ==
    /\ engine = "P0"
    /\ StopCall(P0_stopAudioEffect(activeNodes, stopped))

\* the audio clock of a running context advances
Tick ==
    /\ audioCtx = "running"
    /\ now < MaxClock * ClockStep
    /\ now' = now + ClockStep
    /\ UNCHANGED <<chordName, resolved, buffer, blob, engine, inputs, audioCtx, pc, args, sched, activeNodes, stopped,
                   duration, starts, musicBus, busOf, exported, lastOp, interrupted,
                   sequential>>

\* renderSongToBlob(song, vocalBuffer): the offline export, which only
\* part_000 implements and which touches no module-level state
Export ==
    /\ exported.status = "none"
    /\ \E in \in inputs : exported' = P0_renderSongToBlob(in.song, in.vocal)
    /\ lastOp' = [op |-> "export", call |-> 0]
    /\ UNCHANGED <<chordName, resolved, buffer, blob, engine, inputs, audioCtx, now, pc, args, sched, activeNodes,
                   stopped, duration, starts, musicBus, busOf, interrupted,
                   sequential>>

Next ==
    \/ \E c \in Calls : AE_playSongDemo(c)
    \/ \E c \in Calls : AE_resumed(c)
    \/ \E c \in Calls : P0_playSongDemo(c)
    \/ \E c \in Calls : P0_resumed(c)
    \/ AE_stopAudio
    \/ P0_stopAudio
    \/ Tick

Spec == Init /\ [][Next]_vars

\* ------------------------------------------------------------------------
\* Render passes on every song: one live call and one export of one song
\* ------------------------------------------------------------------------

\* ctx.currentTime when the live pass starts, in clock steps: 0 with no
\* context yet; later values with a context that was created earlier
\* (getAudioContext is also what the speech service decodes with) and has
\* been running since
StartClocks == {0, 1}

InitRender ==
    /\ InitCommon
    /\ chordName = <<>>
    /\ buffer = NoBuffer
    /\ \E t \in StartClocks :
         /\ now = t * ClockStep
         /\ audioCtx = IF t = 0 THEN "null" ELSE "running"
    /\ \E song \in Songs, vocal \in BOOLEAN : inputs = {[song |-> song, vocal |-> vocal]}
    /\ pc = [c \in Calls |-> IF c = 1 THEN "idle" ELSE "off"]

NextRender ==
    \/ AE_playSongDemo(1)
    \/ AE_resumed(1)
    \/ P0_playSongDemo(1)
    \/ P0_resumed(1)
    \/ Export

SpecRender == InitRender /\ [][NextRender]_vars

\* ------------------------------------------------------------------------
\* The chord resolver on its own
\* ------------------------------------------------------------------------

\* the variables of the playback session
sessionVars == <<engine, inputs, audioCtx, now, pc, args, sched, activeNodes, stopped,
                 duration, starts, musicBus, busOf, exported, lastOp, interrupted,
                 sequential>>

\* chord symbols: a root letter or something that is none, an optional
\* accidental, and a quality (the keys of the larger table, the empty
\* quality, and qualities no key is a prefix of)
RootInputs == {<<c>> : c \in RootLetters} \cup {<<"X">>, <<"c">>, <<>>}
AccidentalInputs == {<<>>, <<"#">>, <<"b">>}
QualityInputs ==
    {AE_CHORD_SHAPES[i].key : i \in 1..Len(AE_CHORD_SHAPES)}
      \cup {<<>>, <<"x">>, <<"6">>, <<"M", "7">>, <<"m", "7", "b", "5">>,
            <<"m", "i", "n", "7">>, <<"m", "a", "j", "9", "#">>, <<"a", "d", "d">>}
ChordNames == {r \o a \o q : r \in RootInputs, a \in AccidentalInputs, q \in QualityInputs}

InitResolve ==
    /\ InitCommon
    /\ chordName \in ChordNames
    /\ buffer = NoBuffer
    /\ audioCtx = "null"
    /\ now = 0
    /\ inputs = {}
    /\ pc = [c \in Calls |-> "off"]

AE_resolve ==
    /\ engine = "AE"
    /\ ~resolved.done
    /\ resolved' = [done |-> TRUE, freqs |-> AE_getChordFrequencies(chordName)]
    /\ UNCHANGED <<sessionVars, chordName, buffer, blob>>

P0_resolve ==
    /\ engine = "P0"
    /\ ~resolved.done
    /\ resolved' = [done |-> TRUE, freqs |-> P0_getChordFrequencies(chordName)]
    /\ UNCHANGED <<sessionVars, chordName, buffer, blob>>

NextResolve ==
    \/ AE_resolve
    \/ P0_resolve

SpecResolve == InitResolve /\ [][NextResolve]_vars

\* ------------------------------------------------------------------------
\* The WAV encoder on its own
\* ------------------------------------------------------------------------

\* DataView.setUint16 keeps the low 16 bits.  setUint32 keeps the low 32
\* bits: of a value in 0 .. 2^31 - 1, the range of the integers here, that
\* is the value itself.
Uint16(n) == n % (2 ^ 16)
Uint32(n) == n

\* the sample loop of audioBufferToWav: while pos < length, one 16-bit
\* sample of every channel at the frame offset, then the next offset.
\* data lists the [channel, offset] each sample was read from and the
\* position it was written at.
RECURSIVE P0_writeSamplesOneChannel(_, _, _, _, _)
\* a variant of the loop that moves to the next offset after one channel
P0_writeSamplesOneChannel(pos, offset, length, numOfChan, data) ==
    IF ~(pos < length) THEN [pos |-> pos, data |-> data]
    ELSE P0_writeSamplesOneChannel(pos + 2, offset + 1, length, numOfChan,
                                   Append(data, [channel |-> 0, offset |-> offset,
                                                 at |-> pos]))

RECURSIVE P0_writeSamples(_, _, _, _, _)
P0_writeSamples(pos, offset, length, numOfChan, data) ==
    IF ~(pos < length) THEN [pos |-> pos, data |-> data]
    ELSE P0_writeSamples(pos + 2 * numOfChan, offset + 1, length, numOfChan,
                         data \o [i \in 1..numOfChan |->
                                     [channel |-> i - 1, offset |-> offset,
                                      at |-> pos + 2 * (i - 1)]])

\* a header field: setUint16 / setUint32 write the value at pos and move pos
\* on by the width
Field(name, bytes, value) == [name |-> name, bytes |-> bytes, value |-> value]

\* pos after the fields have been written from pos = 0
RECURSIVE PosAfter(_)
PosAfter(fields) ==
    IF fields = <<>> THEN 0 ELSE fields[1].bytes + PosAfter(Tail(fields))

\* a variant of the file length that leaves the header out
P0_wavLengthNoHeader(buf) == buf.length * buf.numberOfChannels * 2

\* const length = buffer.length * numOfChan * 2 + 44
P0_wavLength(buf) == buf.length * buf.numberOfChannels * 2 + 44

\* the fields audioBufferToWav writes before "data size", in order
P0_wavFields(buf, length) ==
    <<Field("RIFF", 4, "RIFF"),
      Field("riffSize", 4, Uint32(length - 8)),
      Field("WAVE", 4, "WAVE"),
      Field("fmt ", 4, "fmt "),
      Field("fmtSize", 4, Uint32(16)),
      Field("format", 2, Uint16(1)),
      Field("channels", 2, Uint16(buf.numberOfChannels)),
      Field("sampleRate", 4, Uint32(buf.sampleRate)),
      Field("byteRate", 4, Uint32(buf.sampleRate * 2 * buf.numberOfChannels)),
      Field("blockAlign", 2, Uint16(buf.numberOfChannels * 2)),
      Field("bitsPerSample", 2, Uint16(16)),
      Field("data", 4, "data")>>

\* setUint32(length - pos - 4), pos being where this field is written
P0_wavHeader(fields, length) ==
    Append(fields, Field("dataSize", 4, Uint32(length - PosAfter(fields) - 4)))

\* the file: its length, the header, the samples after it
P0_wavFile(length, header, numOfChan) ==
    [done |-> TRUE,
     size |-> length,
     header |-> header,
     data |-> P0_writeSamples(PosAfter(header), 0, length, numOfChan, <<>>).data,
     pos |-> P0_writeSamples(PosAfter(header), 0, length, numOfChan, <<>>).pos]

\* audioBufferToWav of part_000
P0_audioBufferToWav(buf) ==
    P0_wavFile(P0_wavLength(buf),
               P0_wavHeader(P0_wavFields(buf, P0_wavLength(buf)), P0_wavLength(buf)),
               buf.numberOfChannels)

MaxChannels == 3
MaxFrames == 4
SampleRates == {8000, 22050, 44100, 48000, 96000}

Buffers ==
    [numberOfChannels : 1..MaxChannels, length : 1..MaxFrames, sampleRate : SampleRates]

InitWav ==
    /\ InitCommon
    /\ chordName = <<>>
    /\ buffer \in Buffers
    /\ audioCtx = "null"
    /\ now = 0
    /\ inputs = {}
    /\ pc = [c \in Calls |-> "off"]

Encode ==
    /\ ~blob.done
    /\ blob' = P0_audioBufferToWav(buffer)
    /\ UNCHANGED <<sessionVars, chordName, resolved, buffer>>

NextWav == Encode

SpecWav == InitWav /\ [][NextWav]_vars

\* ------------------------------------------------------------------------
\* Properties
\* ------------------------------------------------------------------------

\* the calls that have returned { stop, duration }
Returned == {c \in Calls : pc[c] = "returned"}

\* the chord slots the session's engine walks for a song, and whether it
\* resolves a chord symbol
SlotsFor(song) == IF engine = "AE" THEN AE_slots(song) ELSE P0_slots(song)

Resolves(sym) ==
    IF engine = "AE" THEN Len(AE_getChordFrequencies(sym)) > 0
    ELSE Len(P0_getChordFrequencies(sym)) > 0

\* the sum of the durations allotted to chord slots
RECURSIVE SumDur(_)
SumDur(slots) ==
    IF slots = <<>> THEN 0 ELSE Plus(slots[1].dur, SumDur(Tail(slots)))

\* C1: whatever the start offset, the duration a live start returns (cursor
\* minus start time) is the sum of the durations of all chord slots of the
\* song, resolvable or not; so is the cursor advance of the offline walk.
C1_CursorAdvancesBySum ==
    /\ \A c \in Returned : duration[c] = SumDur(SlotsFor(args[c].song))
    /\ exported.status = "done" =>
           exported.duration = SumDur(P0_slots(exported.song))

\* a live start at a later clock value has returned the duration of a song
\* with several slots, one of them unresolvable
C1_Witness ==
    \E c \in Returned :
        /\ now > 0
        /\ duration[c] > 0
        /\ Len(SlotsFor(args[c].song)) > 1
        /\ \E i \in 1..Len(SlotsFor(args[c].song)) :
               ~Resolves(SlotsFor(args[c].song)[i].sym)

\* C2: the total duration an offline render computes analytically is the
\* cursor advance of its scheduling walk plus the 5-second reverb tail.
C2_AnalyticDurationIsWalkPlusTail ==
    exported.status = "done" =>
        exported.totalDuration = Plus(exported.duration, P0_tail)

\* the scheduled events of a pass: role and tone at the offset from the
\* start time of the pass
Events(recs, startTime) ==
    {[role |-> recs[j].role, tone |-> recs[j].tone,
      offset |-> Minus(recs[j].time, startTime)] :
        j \in {i \in 1..Len(recs) : IsSource(recs[i])}}

\* C3: live playback and offline export of the same song with the same
\* vocal waveform schedule the same voices at the same offsets from their
\* start times, over the same chord-slot boundaries.
C3_LiveMatchesOffline ==
    \A c \in Returned :
        (exported.status = "done" /\ exported.song = args[c].song
             /\ exported.vocal = args[c].vocal)
        => /\ Events(sched[c], LiveStart) = Events(exported.made, 0)
           /\ [i \in 1..Len(starts[c]) |-> Minus(starts[c][i], LiveStart)]
                  = exported.starts

\* what stopAudio of the session's engine does to the registry
StopEffect(active, stop) ==
    IF engine = "AE" THEN AE_stopAudioEffect(active, stop)
    ELSE P0_stopAudioEffect(active, stop)

\* C4: in every state stop() can be called and leaves the registry empty
\* with every registered node stopped; a second stop() right after changes
\* nothing; and whenever stop() was the last engine operation the registry
\* is empty.
C4_StopLeavesRegistryEmpty ==
    /\ (engine = "AE" => ENABLED AE_stopAudio)
    /\ (engine = "P0" => ENABLED P0_stopAudio)
    /\ StopEffect(activeNodes, stopped).activeNodes = {}
    /\ activeNodes \subseteq StopEffect(activeNodes, stopped).stopped
    /\ StopEffect(StopEffect(activeNodes, stopped).activeNodes,
                  StopEffect(activeNodes, stopped).stopped)
           = StopEffect(activeNodes, stopped)
    /\ (lastOp.op = "stop" => activeNodes = {})

\* stop() was called mid-playback: it has stopped a node that had started
\* and had not ended yet
C4_Witness ==
    /\ lastOp.op = "stop"
    /\ \E e \in stopped :
           /\ sched[e[1]][e[2]].time <= now
           /\ Less(now, sched[e[1]][e[2]].end)

\* the source nodes of call c that are scheduled, not stopped, and have not
\* reached their end
Sounding(c) ==
    {i \in 1..Len(sched[c]) :
        /\ IsSource(sched[c][i])
        /\ <<c, i>> \notin stopped
        /\ Less(now, sched[c][i].end)}

\* C5: a start during whose await stop() was called leaves, once it has
\* returned, no voice registered or sounding.
C5_StopDuringAwaitWins ==
    \A c \in interrupted :
        pc[c] = "returned" =>
            /\ Sounding(c) = {}
            /\ \A e \in activeNodes : e[1] # c

\* C6: the voices of two different start calls that returned are never
\* both scheduled and unstopped, and every unstopped voice of a call that
\* returned is in the registry.
C6_AtMostOneLiveRender ==
    /\ \A c \in Returned, d \in Returned :
           c # d => (Sounding(c) = {} \/ Sounding(d) = {})
    /\ \A c \in Returned : \A i \in Sounding(c) : <<c, i>> \in activeNodes

\* C7: while calls run one after the other, the registry is empty after a
\* stop and holds exactly the voices of a start that has returned, and a
\* start has stopped every voice of the playbacks before it.
C7_SequentialStateMachine ==
    sequential =>
        /\ (lastOp.op = "stop" => activeNodes = {})
        /\ (lastOp.op = "start" /\ pc[lastOp.call] = "returned" =>
                activeNodes = SourcesOf(lastOp.call, sched[lastOp.call]))
        /\ (lastOp.op \in {"start", "await"} =>
                \A d \in Calls \ {lastOp.call} : Sounding(d) = {})

\* C8: a slot whose chord symbol does not resolve has no scheduled node,
\* and every slot starts at the start time plus the durations allotted to
\* the slots before it, whether those resolved or not.
C8_UnresolvableSlotIsSilent ==
    /\ \A c \in Returned :
           /\ Len(starts[c]) = Len(SlotsFor(args[c].song))
           /\ \A i \in 1..Len(starts[c]) :
                  /\ starts[c][i] =
                         Plus(LiveStart,
                              SumDur(SubSeq(SlotsFor(args[c].song), 1, i - 1)))
                  /\ ~Resolves(SlotsFor(args[c].song)[i].sym) =>
                         \A j \in 1..Len(sched[c]) : sched[c][j].slot # i
    /\ exported.status = "done" =>
           /\ Len(exported.starts) = Len(P0_slots(exported.song))
           /\ \A i \in 1..Len(exported.starts) :
                  /\ exported.starts[i] =
                         SumDur(SubSeq(P0_slots(exported.song), 1, i - 1))
                  /\ Len(P0_getChordFrequencies(P0_slots(exported.song)[i].sym)) = 0 =>
                         \A j \in 1..Len(exported.made) : exported.made[j].slot # i

\* a returned live start walked an unresolvable slot and scheduled nodes
\* for a later slot
C8_Witness ==
    \E c \in Returned :
        \E i \in 1..Len(starts[c]) :
            /\ ~Resolves(SlotsFor(args[c].song)[i].sym)
            /\ \E j \in 1..Len(sched[c]) : sched[c][j].slot > i

\* a song none of whose sections has a usable chord line (no chord lines,
\* or only empty ones), and its number of lyric lines
Unchorded(song) ==
    \A si \in 1..Len(song.sections) :
        \A li \in 1..Len(song.sections[si].chords) :
            song.sections[si].chords[li] = <<>>

RECURSIVE LyricLines(_)
LyricLines(sections) ==
    IF sections = <<>> THEN 0
    ELSE Len(sections[1].lyrics) + LyricLines(Tail(sections))

\* C9: a song whose sections have no usable chord lines is rendered, live
\* and offline, with one bar per lyric line.
C9_FallbackBarPerLyricLine ==
    /\ \A c \in Returned :
           Unchorded(args[c].song) =>
               duration[c] =
                   LyricLines(args[c].song.sections)
                       * Scale(BeatOf(IF engine = "AE" THEN AE_bpm(args[c].song.tempo)
                                      ELSE P0_bpm(args[c].song.tempo)), 4, 1)
    /\ (exported.status = "done" /\ Unchorded(exported.song)) =>
           exported.duration =
               LyricLines(exported.song.sections)
                   * Scale(BeatOf(P0_bpm(exported.song.tempo)), 4, 1)

\* C10: the beat duration a render derives from the tempo string is finite
\* and strictly positive.
C10_BeatFiniteAndPositive ==
    /\ \A c \in Calls :
           pc[c] \in {"returned", "threw"} =>
               /\ IsFinite(BeatOf(IF engine = "AE" THEN AE_bpm(args[c].song.tempo)
                                  ELSE P0_bpm(args[c].song.tempo)))
               /\ BeatOf(IF engine = "AE" THEN AE_bpm(args[c].song.tempo)
                         ELSE P0_bpm(args[c].song.tempo)) > 0
    /\ exported.status # "none" =>
           /\ IsFinite(BeatOf(P0_bpm(exported.song.tempo)))
           /\ BeatOf(P0_bpm(exported.song.tempo)) > 0

\* ------------------------------------------------------------------------
\* Chord resolution (C11 - C13)
\* ------------------------------------------------------------------------

\* the symbol starts with a root letter A-G
HasRootLetter == chordName # <<>> /\ chordName[1] \in RootLetters

\* the root of such a symbol: the letter and the accidental after it, if any
RootName ==
    IF chordName = <<>> THEN <<>>
    ELSE IF Len(chordName) >= 2 /\ chordName[2] \in Accidentals
         THEN SubSeq(chordName, 1, 2) ELSE SubSeq(chordName, 1, 1)

\* what follows the root
QualityText == SubSeq(chordName, Len(RootName) + 1, Len(chordName))

Semis == [i \in 1..Len(resolved.freqs) |-> resolved.freqs[i].semi]

\* C11: every chord symbol that starts with a root letter A-G, with or
\* without an accidental # or b, whatever quality follows, resolves to a
\* non-empty sequence whose first element is the root's tabulated frequency
\* at offset 0 and whose other elements are not lower.
C11_RootedSymbolResolvesFromRoot ==
    (resolved.done /\ HasRootLetter) =>
        /\ resolved.freqs # <<>>
        /\ resolved.freqs[1].semi = 0
        /\ RootName \in NoteNames
        /\ resolved.freqs[1].base = NOTES[NoteFreq(RootName)].freq
        /\ \A i \in 1..Len(resolved.freqs) :
             /\ resolved.freqs[i].base = resolved.freqs[1].base
             /\ resolved.freqs[i].semi >= 0

\* the quality keys the table is said to hold
ClaimedKeys ==
    {<<"m", "a", "j">>, <<"m", "i", "n">>, <<"m">>, <<"d", "i", "m">>,
     <<"a", "u", "g">>, <<"7">>, <<"m", "a", "j", "7">>, <<"m", "7">>, <<"9">>,
     <<"m", "a", "j", "9">>, <<"m", "9">>, <<"a", "d", "d", "9">>,
     <<"s", "u", "s", "2">>, <<"s", "u", "s", "4">>}

EngineTable == IF engine = "AE" THEN AE_CHORD_SHAPES ELSE P0_CHORD_SHAPES

KeysOf(table) == {table[i].key : i \in 1..Len(table)}

\* the claimed keys the quality starts with
MatchingKeys == {k \in ClaimedKeys : StartsWith(QualityText, k)}

LongestMatchingKey == CHOOSE k \in MatchingKeys : \A j \in MatchingKeys : Len(j) <= Len(k)

\* C12: a resolved symbol gets the intervals of the longest key that its
\* quality starts with, among maj, min, m, dim, aug, 7, maj7, m7, 9, maj9,
\* m9, add9, sus2 and sus4, each of which the resolver's table holds; an
\* empty quality or one that starts with none of them gets the major triad
\* 0,4,7; maj7 gives 0,4,7,11 and m gives 0,3,7.
C12_LongestKeyOfFullTable ==
    (resolved.done /\ resolved.freqs # <<>>) =>
        /\ MatchingKeys = {} => Semis = <<0, 4, 7>>
        /\ MatchingKeys # {} =>
             /\ LongestMatchingKey \in KeysOf(EngineTable)
             /\ Semis = ShapeOf(EngineTable, LongestMatchingKey)
        /\ QualityText = <<"m", "a", "j", "7">> => Semis = <<0, 4, 7, 11>>
        /\ QualityText = <<"m">> => Semis = <<0, 3, 7>>

\* C13: the resolver returns the empty sequence exactly when the root is
\* unknown to it, that is when the symbol does not start with a letter A-G
\* or the root it starts with is not a tabulated note; no other symbol
\* resolves to the empty sequence.
C13_EmptyExactlyWhenRootUnknown ==
    resolved.done =>
        (resolved.freqs = <<>> <=> (~HasRootLetter \/ RootName \notin NoteNames))

\* "Xmaj" has been resolved to nothing, and "Cx", a known root with a
\* quality no key matches, to something
C13_Witness ==
    /\ resolved.done
    /\ \/ chordName = <<"X", "m", "a", "j">> /\ resolved.freqs = <<>>
       \/ chordName = <<"C", "x">> /\ resolved.freqs # <<>>

\* ------------------------------------------------------------------------
\* Arrangement (C14, C15)
\* ------------------------------------------------------------------------

\* the slots that open a Chorus section: the first chord window of each
ChorusOpeners(slots) ==
    {i \in 1..Len(slots) :
        /\ slots[i].type = "Chorus"
        /\ \A k \in 1..(i - 1) : slots[k].sec # slots[i].sec}

WithRole(recs, role) == {j \in 1..Len(recs) : recs[j].role = role}

\* one crash per Chorus section, at the start of its first chord window
OneCrashPerChorus(recs, slots, slotStarts) ==
    /\ Cardinality(WithRole(recs, "crash")) = Cardinality(ChorusOpeners(slots))
    /\ \A i \in ChorusOpeners(slots) :
           \E j \in WithRole(recs, "crash") :
               recs[j].slot = i /\ recs[j].time = slotStarts[i]

\* C14: playSongDemo of a pop song schedules exactly one crash for each Chorus
\* section, at the start of the section's first chord window, however many
\* chord lines and chords the section has, and no crash for a section of
\* another type.
C14_OneCrashPerPopChorus ==
    \A c \in Returned :
        (engine = "AE" /\ args[c].song.genre = "pop") =>
            OneCrashPerChorus(sched[c], AE_slots(args[c].song), starts[c])

\* the hi-hats of the bar arranged for slot i
HatsOfBar(recs, i) == {j \in WithRole(recs, "hat") : recs[j].slot = i}

\* n hats, the first at the start of the bar, each a step after the one before
EvenHats(recs, i, barStart, n, step) ==
    /\ Cardinality(HatsOfBar(recs, i)) = n
    /\ {recs[j].time : j \in HatsOfBar(recs, i)}
           = {barStart + m * step : m \in 0..(n - 1)}

\* the slots for which playArrangement arranged a bar: a pop bar opens
\* with a kick
PopBars(recs, slots) ==
    {i \in 1..Len(slots) : \E j \in WithRole(recs, "kick") : recs[j].slot = i}

\* C15: in a pop song played by playArrangement, a bar of a Chorus has 16
\* hi-hats a quarter of a beat apart and a bar of any other section has 8
\* hi-hats half a beat apart, so a Chorus bar has more hats than a Verse
\* bar at the same tempo.
C15_ChorusBarHasDenserHats ==
    \A c \in Returned :
        (engine = "AE" /\ args[c].song.genre = "pop") =>
            \A i \in PopBars(sched[c], AE_slots(args[c].song)) :
                IF AE_slots(args[c].song)[i].type = "Chorus"
                THEN EvenHats(sched[c], i, starts[c][i], 16,
                              BeatOf(AE_bpm(args[c].song.tempo)) \div 4)
                ELSE EvenHats(sched[c], i, starts[c][i], 8,
                              BeatOf(AE_bpm(args[c].song.tempo)) \div 2)

\* a pop Chorus bar has been arranged with 16 hi-hats
C15_Witness ==
    \E c \in Returned :
        /\ engine = "AE"
        /\ args[c].song.genre = "pop"
        /\ \E i \in PopBars(sched[c], AE_slots(args[c].song)) :
               /\ AE_slots(args[c].song)[i].type = "Chorus"
               /\ Cardinality(HatsOfBar(sched[c], i)) = 16

\* ------------------------------------------------------------------------
\* Chord lines and bars (C16)
\* ------------------------------------------------------------------------

\* every section of the song has chord lines of its own
HasChordLines(song) ==
    \A si \in 1..Len(song.sections) : Len(song.sections[si].chords) > 0

\* the chord symbols of a line: what whitespace and hyphens separate
SymbolsOf(chordLine) == SplitOn(chordLine, Whitespace \cup Hyphen)

\* a bar for every chord line that holds a symbol, shared evenly among its
\* k symbols: the slot durations, in order
BarShares(song, bar) ==
    Concat([si \in 1..Len(song.sections) |->
      Concat([li \in 1..Len(song.sections[si].chords) |->
        [j \in 1..Len(SymbolsOf(song.sections[si].chords[li])) |->
            Scale(bar, 1, Len(SymbolsOf(song.sections[si].chords[li])))]])])

RECURSIVE SumTimes(_)
SumTimes(ds) == IF ds = <<>> THEN 0 ELSE Plus(ds[1], SumTimes(Tail(ds)))

\* the walk began a slot for every share, each where the shares before it end
WalksShares(slotStarts, startTime, shares) ==
    /\ Len(slotStarts) = Len(shares)
    /\ \A i \in 1..Len(slotStarts) :
           slotStarts[i] = Plus(startTime, SumTimes(SubSeq(shares, 1, i - 1)))

BarOf(bpm) == Scale(BeatOf(bpm), 4, 1)

EngineBpm(tempo) == IF engine = "AE" THEN AE_bpm(tempo) ELSE P0_bpm(tempo)

\* C16: every chord line that holds k chord symbols, separated by
\* whitespace, hyphens or both, takes one bar of 4 beats at the song's BPM
\* and gives k slots of a k-th of the bar each, in the walk of a live start
\* and in the walk of an offline render.
C16_LineIsOneBarSharedEvenly ==
    /\ \A c \in Returned :
           HasChordLines(args[c].song) =>
               /\ WalksShares(starts[c], LiveStart,
                              BarShares(args[c].song,
                                        BarOf(EngineBpm(args[c].song.tempo))))
               /\ duration[c] =
                      SumTimes(BarShares(args[c].song,
                                         BarOf(EngineBpm(args[c].song.tempo))))
    /\ (exported.status = "done" /\ HasChordLines(exported.song)) =>
           /\ WalksShares(exported.starts, 0,
                          BarShares(exported.song, BarOf(P0_bpm(exported.song.tempo))))
           /\ exported.duration =
                  SumTimes(BarShares(exported.song, BarOf(P0_bpm(exported.song.tempo))))

\* ------------------------------------------------------------------------
\* Bus graphs (C17)
\* ------------------------------------------------------------------------

\* C17: two live starts that both returned never have their voices on the
\* same bus graph: each built a music bus, compressor and reverb of its
\* own, so the gain automation one of them scheduled on its music bus is
\* not on the bus the other plays through.
C17_EveryPassBuildsItsOwnBus ==
    \A c \in Returned : \A d \in Returned :
        c # d => busOf[c] # busOf[d]

\* ------------------------------------------------------------------------
\* WAV file (C18)
\* ------------------------------------------------------------------------

\* the value of the header field of that name
HeaderValue(name) ==
    blob.header[CHOOSE i \in 1..Len(blob.header) : blob.header[i].name = name].value

\* the byte offset at which the header field of that name is written
HeaderOffset(name) ==
    PosAfter(SubSeq(blob.header, 1,
                    (CHOOSE i \in 1..Len(blob.header) : blob.header[i].name = name) - 1))

\* C18: the encoded file is a header of 44 bytes followed by the samples,
\* 16 bits each, frame after frame with the channels of a frame in order;
\* its length is 44 + frames * channels * 2, the RIFF size is the length
\* minus 8, the format tag 1, the byte rate sampleRate * channels * 2, the
\* block align channels * 2, the bits per sample 16 and the data size the
\* length minus 44, for every channel count and frame count.
C18_WavLayout ==
    blob.done =>
        /\ PosAfter(blob.header) = 44
        /\ blob.size = 44 + buffer.length * buffer.numberOfChannels * 2
        /\ HeaderValue("RIFF") = "RIFF" /\ HeaderOffset("RIFF") = 0
        /\ HeaderValue("riffSize") = blob.size - 8 /\ HeaderOffset("riffSize") = 4
        /\ HeaderValue("WAVE") = "WAVE" /\ HeaderOffset("WAVE") = 8
        /\ HeaderValue("fmt ") = "fmt " /\ HeaderOffset("fmt ") = 12
        /\ HeaderValue("fmtSize") = 16
        /\ HeaderValue("format") = 1 /\ HeaderOffset("format") = 20
        /\ HeaderValue("channels") = buffer.numberOfChannels
        /\ HeaderValue("sampleRate") = buffer.sampleRate
        /\ HeaderValue("byteRate") = buffer.sampleRate * buffer.numberOfChannels * 2
        /\ HeaderOffset("byteRate") = 28
        /\ HeaderValue("blockAlign") = buffer.numberOfChannels * 2
        /\ HeaderValue("bitsPerSample") = 16 /\ HeaderOffset("bitsPerSample") = 34
        /\ HeaderValue("data") = "data" /\ HeaderOffset("data") = 36
        /\ HeaderValue("dataSize") = blob.size - 44
        /\ Len(blob.data) = buffer.length * buffer.numberOfChannels
        /\ \A n \in 1..Len(blob.data) :
               /\ blob.data[n].channel = (n - 1) % buffer.numberOfChannels
               /\ blob.data[n].offset = (n - 1) \div buffer.numberOfChannels
        /\ blob.pos = blob.size

\* a buffer of several channels and several frames has been encoded
C18_Witness ==
    /\ blob.done
    /\ buffer.numberOfChannels > 1
    /\ buffer.length > 1
    /\ Len(blob.data) > buffer.numberOfChannels

\* ------------------------------------------------------------------------
\* Vocal waveform (C19)
\* ------------------------------------------------------------------------

\* the instrumental events of a pass: role, time and destination of every
\* record that is not a vocal source, in scheduling order
Instrumental(recs) ==
    [j \in 1..Len(SelectSeq(recs, LAMBDA r : r.role # "vocal")) |->
        [role |-> SelectSeq(recs, LAMBDA r : r.role # "vocal")[j].role,
         time |-> SelectSeq(recs, LAMBDA r : r.role # "vocal")[j].time,
         dest |-> SelectSeq(recs, LAMBDA r : r.role # "vocal")[j].dest]]

\* the live pass of the session's engine
LivePass(song, vocalBuffer, rnd) ==
    IF engine = "AE" THEN AE_render(song, vocalBuffer, LiveStart, rnd)
    ELSE P0_renderMusicToContext(song, vocalBuffer, LiveStart)

Finished == {c \in Calls : pc[c] \in {"returned", "threw"}}

\* C19: a render without a vocal waveform fails only if the render of the
\* same song with one fails, and it schedules the same instrumental events
\* (roles, times, destinations) and returns the same duration as the
\* render with a vocal waveform, live and offline.
C19_VocalDoesNotChangeInstrumental ==
    /\ \A c \in Finished :
           /\ (pc[c] = "threw")
                  = LivePass(args[c].song, ~args[c].vocal, args[c].rnd).threw
           /\ Instrumental(sched[c])
                  = Instrumental(LivePass(args[c].song, ~args[c].vocal, args[c].rnd).made)
           /\ pc[c] = "returned" =>
                  duration[c] = LivePass(args[c].song, ~args[c].vocal, args[c].rnd).duration
    /\ exported.status # "none" =>
           /\ exported.status
                  = P0_renderSongToBlob(exported.song, ~exported.vocal).status
           /\ Instrumental(exported.made)
                  = Instrumental(P0_renderSongToBlob(exported.song, ~exported.vocal).made)
           /\ exported.duration
                  = P0_renderSongToBlob(exported.song, ~exported.vocal).duration
           /\ exported.totalDuration
                  = P0_renderSongToBlob(exported.song, ~exported.vocal).totalDuration

\* a live start without a vocal waveform has returned with voices scheduled
C19_Witness ==
    \E c \in Returned :
        /\ ~args[c].vocal
        /\ duration[c] > 0
        /\ Instrumental(sched[c]) # <<>>

\* ------------------------------------------------------------------------
\* Drum routing (C20)
\* ------------------------------------------------------------------------

DrumRoles == {"kick", "snare", "hat", "crash"}

DrumsOnCompressor(recs, roles) ==
    \A j \in 1..Len(recs) : recs[j].role \in roles => recs[j].dest = "compressor"

\* C20: every kick, snare, hi-hat and crash that a render pass schedules,
\* live or offline, in any genre and section type, is connected to the
\* compressor and not to the ducked music bus.
C20_DrumsBypassMusicBus ==
    /\ \A c \in Finished : DrumsOnCompressor(sched[c], DrumRoles)
    /\ DrumsOnCompressor(exported.made, DrumRoles)

\* ------------------------------------------------------------------------
\* Voice routing (C21)
\* ------------------------------------------------------------------------

\* every record of one of the roles goes to the destination
RolesOn(recs, roles, dest) ==
    \A j \in 1..Len(recs) : recs[j].role \in roles => recs[j].dest = dest

\* C21: every chord and strum voice, every bass voice and every lead
\* (arpeggio) voice that a render pass schedules is connected to the music
\* bus, and every pad voice to the reverb send; none of them is connected to
\* the compressor directly.
C21_PitchedVoicesOnMusicBus ==
    /\ \A c \in Finished :
           /\ RolesOn(sched[c], {"chord", "bass", "lead"}, "musicBus")
           /\ RolesOn(sched[c], {"pad"}, "reverb")
    /\ RolesOn(exported.made, {"chord", "bass", "lead"}, "musicBus")
    /\ RolesOn(exported.made, {"pad"}, "reverb")

\* a pop Chorus has been played with chords, pads, bass and the arpeggio
C21_Witness ==
    \E c \in Returned :
        \A r \in {"chord", "bass", "lead", "pad"} :
            \E j \in 1..Len(sched[c]) : sched[c][j].role = r

\* ------------------------------------------------------------------------
\* Sidechain ducking (C22)
\* ------------------------------------------------------------------------

\* the automation records of a pass: everything that writes a bus gain
Automation(recs) == {j \in 1..Len(recs) : ~IsSource(recs[j])}

\* every kick is followed at once by a duck of the music bus stamped at the
\* kick's time and releasing from a tenth of a second later, and there is
\* no other automation
DuckPerKick(recs) ==
    /\ \A j \in WithRole(recs, "kick") :
           /\ j < Len(recs)
           /\ recs[j + 1].role = "duck"
           /\ recs[j + 1].dest = "musicBus"
           /\ recs[j + 1].time = recs[j].time
           /\ recs[j + 1].end = Plus(recs[j].time, Sec(1, 10))
    /\ \A j \in Automation(recs) :
           /\ recs[j].role = "duck"
           /\ j > 1
           /\ recs[j - 1].role = "kick"
    /\ Cardinality(Automation(recs)) = Cardinality(WithRole(recs, "kick"))

\* C22: in every render pass, live or offline, each kick trigger at time t
\* comes with ducking automation on the music bus gain stamped at t, the
\* release starting at t + 0.1, and nothing else writes the music bus gain:
\* the duck commands are as many as the kicks and carry the same times.
C22_OneDuckPerKick ==
    /\ \A c \in Finished : DuckPerKick(sched[c])
    /\ DuckPerKick(exported.made)

\* a live start has returned with several kicks scheduled
C22_Witness ==
    \E c \in Returned : Cardinality(WithRole(sched[c], "kick")) > 1

\* ------------------------------------------------------------------------
\* The cursor (C23, C24)
\* ------------------------------------------------------------------------

\* the cursor of a walk moves forward only: every slot has a duration above
\* zero, no slot begins before the one ahead of it, and the walk does not
\* end before it began
MovesForward(slotStarts, slots, walked) ==
    /\ \A i \in 1..Len(slots) : Less(0, slots[i].dur)
    /\ \A i \in 1..(Len(slotStarts) - 1) : ~Less(slotStarts[i + 1], slotStarts[i])
    /\ ~Less(walked, 0)

\* C23: in every render that completes, live or offline, for every song
\* and tempo string, each chord slot advances the cursor by a duration
\* above zero and the cursor never decreases.
C23_CursorNeverDecreases ==
    /\ \A c \in Returned :
           MovesForward(starts[c], SlotsFor(args[c].song), duration[c])
    /\ exported.status = "done" =>
           MovesForward(exported.starts, P0_slots(exported.song), exported.duration)

\* no record of a slot is stamped before the cursor at which the slot began,
\* and none before the start time of the pass
NotBeforeCursor(recs, slotStarts, startTime) ==
    \A j \in 1..Len(recs) :
        /\ ~Less(recs[j].time, startTime)
        /\ recs[j].slot > 0 => ~Less(recs[j].time, slotStarts[recs[j].slot])

\* C24: in every render that completes, live or offline, the start time of
\* every voice and the timestamp of every bus automation emitted for a
\* chord slot is at or after the cursor at which that slot began, and so
\* never before the start time of the render.
C24_NothingBeforeCursor ==
    /\ \A c \in Returned : NotBeforeCursor(sched[c], starts[c], LiveStart)
    /\ exported.status = "done" =>
           NotBeforeCursor(exported.made, exported.starts, 0)

\* ------------------------------------------------------------------------
\* Voice lifetimes (C25)
\* ------------------------------------------------------------------------

\* the sources created for notes and drum hits
HitsAndNotes(recs) ==
    {j \in 1..Len(recs) : IsSource(recs[j]) /\ recs[j].role # "vocal"}

\* the release of the instrument that plays a role in a genre
ReleaseOf(role, genre) ==
    CASE role = "pad" -> Sec(2, 1)
      [] role = "bass" -> Sec(2, 10)
      [] role = "lead" -> Sec(1, 10)
      [] role = "chord" ->
           IF genre = "chinese" THEN Sec(15, 10)
           ELSE IF genre = "rnb" THEN Sec(5, 10) ELSE Sec(3, 10)

\* every source of a note or drum hit has a stop at a finite time not
\* before its start; a pad stops a bar and its release after its start, a
\* lead note a tenth of a second and its release after, every note at least
\* its release after; a layered or sub oscillator stops with the main
\* oscillator of its note
StopsScheduled(recs, genre, bar) ==
    \A j \in HitsAndNotes(recs) :
        /\ IsFinite(recs[j].end)
        /\ ~Less(recs[j].end, recs[j].time)
        /\ recs[j].role \in {"chord", "pad", "bass", "lead"} =>
               Less(Plus(recs[j].time, ReleaseOf(recs[j].role, genre)), recs[j].end)
        /\ recs[j].role = "pad" =>
               recs[j].end = Plus(Plus(recs[j].time, bar), Sec(2, 1))
        /\ recs[j].role = "lead" =>
               recs[j].end = Plus(Plus(recs[j].time, Sec(1, 10)), Sec(1, 10))
        /\ recs[j].src \in {"osc2", "sub"} =>
               \E m \in HitsAndNotes(recs) :
                   /\ m > j
                   /\ recs[m].src = "osc"
                   /\ recs[m].role = recs[j].role
                   /\ recs[m].tone = recs[j].tone
                   /\ recs[m].time = recs[j].time
                   /\ recs[m].end = recs[j].end

\* C25: every oscillator and noise source that playSongDemo of
\* audioEngine.ts creates for a note or a drum hit has a stop scheduled
\* when it is created, at the end of its lifetime (start + duration +
\* release for a note, its layered and sub oscillators included), so every
\* voice ends by the last of these times without any stop() call; and each
\* such source is in the registry of active voices.
C25_VoicesStopThemselves ==
    \A c \in Finished :
        engine = "AE" =>
            /\ StopsScheduled(sched[c], args[c].song.genre,
                              BarOf(AE_bpm(args[c].song.tempo)))
            /\ \A j \in HitsAndNotes(sched[c]) : <<c, j>> \in activeNodes

\* a bar with layered oscillators, sub-oscillators and a kick has been
\* played
C25_Witness ==
    \E c \in Returned :
        /\ engine = "AE"
        /\ \E j \in HitsAndNotes(sched[c]) : sched[c][j].src = "osc2"
        /\ \E j \in HitsAndNotes(sched[c]) : sched[c][j].src = "sub"
        /\ \E j \in HitsAndNotes(sched[c]) : sched[c][j].role = "kick"

\* ------------------------------------------------------------------------
\* Determinism (C26)
\* ------------------------------------------------------------------------

\* the schedule of a pass: role, destination and time from the start of the
\* pass of every record, in scheduling order
ScheduleOf(recs, startTime) ==
    [j \in 1..Len(recs) |->
        [role |-> recs[j].role, dest |-> recs[j].dest,
         offset |-> Minus(recs[j].time, startTime)]]

\* C26: the schedule of a render (roles, times from its start,
\* destinations) is determined by the song and by whether a vocal waveform
\* is supplied: whatever values Math.random() returns, a render of the same
\* input at the same clock gives the schedule this render gave, in every
\* genre, chinese included.
C26_ScheduleIsDeterministic ==
    \A c \in Returned :
        \A rnd \in RandomSeeds :
            ScheduleOf(sched[c], LiveStart)
                = ScheduleOf(LivePass(args[c].song, args[c].vocal, rnd).made, LiveStart)

\* ------------------------------------------------------------------------
\* Chord windows (C27, C28)
\* ------------------------------------------------------------------------

\* every record of a slot is stamped inside the window of the slot, from
\* the cursor at which it began up to, not including, the cursor plus the
\* slot's duration
InsideWindows(recs, slotStarts, slots) ==
    \A j \in 1..Len(recs) :
        recs[j].slot > 0 =>
            /\ ~Less(recs[j].time, slotStarts[recs[j].slot])
            /\ Less(recs[j].time,
                    Plus(slotStarts[recs[j].slot], slots[recs[j].slot].dur))

\* C27: every event that playSongDemo of audioEngine.ts schedules for a
\* chord slot starts inside the window of that slot; when a chord line
\* holds several chords, the pattern of one chord puts no drum, bass or
\* harmony event into the window of the next chord.
C27_EventsInsideChordWindow ==
    \A c \in Returned :
        engine = "AE" =>
            InsideWindows(sched[c], starts[c], AE_slots(args[c].song))

\* the chord tones of a symbol as playSongDemo of audioEngine.ts resolves it
TonesOf(sym) == 1..Len(AE_getChordFrequencies(sym))

\* a voice of the role (and tone, when one is given) was scheduled for slot
\* i inside the slot's window
Voiced(recs, i, role, tones, from, dur) ==
    \E j \in WithRole(recs, role) :
        /\ recs[j].slot = i
        /\ recs[j].tone \in tones
        /\ ~Less(recs[j].time, from)
        /\ Less(recs[j].time, Plus(from, dur))

\* C28: playSongDemo of audioEngine.ts leaves a chord slot silent only if
\* its symbol does not resolve: for a slot whose symbol resolves, whatever
\* its duration and the tempo, there is a harmony voice for every chord
\* tone and a bass voice inside the slot.
C28_ResolvableSlotSounds ==
    \A c \in Returned :
        engine = "AE" =>
            \A i \in 1..Len(starts[c]) :
                TonesOf(AE_slots(args[c].song)[i].sym) # {} =>
                    /\ \A t \in TonesOf(AE_slots(args[c].song)[i].sym) :
                           Voiced(sched[c], i, "chord", {t}, starts[c][i],
                                  AE_slots(args[c].song)[i].dur)
                    /\ Voiced(sched[c], i, "bass", {1}, starts[c][i],
                              AE_slots(args[c].song)[i].dur)

\* ------------------------------------------------------------------------
\* Offline rendering target (C29)
\* ------------------------------------------------------------------------

\* C29: in an offline render every voice starts before the end of the
\* rendering target: its start time is strictly less than the total
\* duration allocated for the song, chord time plus tail.
C29_EventsInsideRenderTarget ==
    exported.status = "done" =>
        \A j \in 1..Len(exported.made) :
            IsSource(exported.made[j]) =>
                Less(exported.made[j].time, exported.totalDuration)

\* ------------------------------------------------------------------------
\* WAV sample loop (C30)
\* ------------------------------------------------------------------------

\* C30: the sample loop of the encoder ends for every buffer of at least one
\* channel.  It has then written frames * channels samples, frame after
\* frame with the channels of a frame in order, each at the two bytes after
\* the one before, the first right after the header; no sample was read at
\* an offset at or beyond the frame count or from a channel the buffer does
\* not have, no sample was written past the end of the output buffer, and
\* the write position is the file length.
C30_SampleLoop ==
    blob.done =>
        /\ Len(blob.data) = buffer.length * buffer.numberOfChannels
        /\ \A n \in 1..Len(blob.data) :
               /\ blob.data[n].offset = (n - 1) \div buffer.numberOfChannels
               /\ blob.data[n].channel = (n - 1) % buffer.numberOfChannels
               /\ blob.data[n].offset < buffer.length
               /\ blob.data[n].channel < buffer.numberOfChannels
               /\ blob.data[n].at = PosAfter(blob.header) + 2 * (n - 1)
               /\ blob.data[n].at + 2 <= blob.size
        /\ blob.pos = blob.size

\* the loop has run over several frames of several channels and its last
\* sample fills the last two bytes of the file
C30_Witness ==
    /\ blob.done
    /\ buffer.numberOfChannels >= 2
    /\ buffer.length >= 3
    /\ blob.data[Len(blob.data)].at + 2 = blob.size
    /\ blob.data[Len(blob.data)].offset = buffer.length - 1

=============================================================================
